---- MODULE Spec2Model ----
(***************************************************************************)
(* Key ring lifecycle of ibm/service/kms/resource_ibm_kms_key_rings.go:    *)
(* resourceIBMKmsKeyRingCreate / Read / Delete, the identifier they build  *)
(* and decode, the shared key-protect client they configure, and the       *)
(* remote services they call.                                              *)
(*                                                                         *)
(* Go strings are sequences of one-character strings, so that              *)
(* strings.Split, strings.Contains and fmt.Sprintf are computed as the     *)
(* code computes them.  Go slices are 0-based: s[i] in Go is s[i+1] here.  *)
(***************************************************************************)
EXTENDS Integers, Sequences, FiniteSets, TLC

VARIABLES d, pc, op, loc, ret, entry, calls, last, kpAPI, instances, rings, withKeys, codec,
          session

vars == <<d, pc, op, loc, ret, entry, calls, last, kpAPI, instances, rings, withKeys, codec,
          session>>

(***************************************************************************)
(* String literals of the source and of the scenarios.                     *)
(***************************************************************************)
Colon == <<":">>
\* ":keyRing:", the separator of lines 145, 155 and 208
SEP == <<":","k","e","y","R","i","n","g",":">>
KeyRingText == <<"k","e","y","R","i","n","g">>
PrivateText == <<"p","r","i","v","a","t","e">>
FinanceKeys == <<"f","i","n","a","n","c","e","-","k","e","y","s">>
CRN1 == <<"c","r","n",":","v","1",":","b","l","u","e","m","i","x",":","p","u","b","l","i","c",":","k","m","s",":","u","s","-","s","o","u","t","h",":","a","/","a","b","c",":","1","2","3",":",":">>
CRN2 == <<"c","r","n",":","v","1",":","b","l","u","e","m","i","x",":","p","u","b","l","i","c",":","k","m","s",":","e","u","-","d","e",":","a","/","a","b","c",":","4","5","6",":",":">>
GUID1 == <<"1","2","3">>
GUID2 == <<"4","5","6">>
ABC == <<"a","b","c">>
BadId == <<"b","a","d","-","i","d","-","n","o","-","s","e","p","a","r","a","t","o","r">>
ShortId == <<"a","b",":","k","e","y","R","i","n","g",":","x",":","y">>
ExtId1 == <<"f","i","n","a","n","c","e","-","k","e","y","s",":","k","e","y","R","i","n","g",":","c","r","n",":","v","1",":","b","l","u","e","m","i","x",":","p","u","b","l","i","c",":","k","m","s",":","u","s","-","s","o","u","t","h",":","a","/","a","b","c",":","1","2","3",":",":">>
PubURL1 == <<"h","t","t","p","s",":","/","/","u","s","-","s","o","u","t","h",".","k","m","s">>
PrivURL1 == <<"h","t","t","p","s",":","/","/","p","r","i","v","a","t","e",".","u","s","-","s","o","u","t","h",".","k","m","s">>
PubURL2 == <<"h","t","t","p","s",":","/","/","e","u","-","d","e",".","k","m","s">>
Empty == <<>>

(***************************************************************************)
(* strings.Index, strings.Contains, strings.Split (Go standard library, as *)
(* called on lines 79, 155, 160, 194, 208, 210).                           *)
(***************************************************************************)
\* sep occurs in s at (1-based) position i
MatchAt(s, sep, i) ==
    /\ i + Len(sep) - 1 <= Len(s)
    /\ SubSeq(s, i, i + Len(sep) - 1) = sep

\* strings.Index: the first position where sep occurs in s, 0 when it does not
Index(s, sep) ==
    IF \E i \in 1..Len(s) : MatchAt(s, sep, i)
    THEN CHOOSE i \in 1..Len(s) :
            /\ MatchAt(s, sep, i)
            /\ \A j \in 1..(i - 1) : ~MatchAt(s, sep, j)
    ELSE 0

\* strings.Contains
Contains(s, sub) == Index(s, sub) # 0

\* strings.Split for a non-empty separator: cuts at EVERY non-overlapping
\* occurrence, left to right; no occurrence gives the one-element list <<s>>
RECURSIVE Split(_, _)
Split(s, sep) ==
    LET i == Index(s, sep)
    IN  IF i = 0
        THEN <<s>>
        ELSE <<SubSeq(s, 1, i - 1)>> \o Split(SubSeq(s, i + Len(sep), Len(s)), sep)

\* fmt.Sprintf("%s:keyRing:%s", keyRing, crn) of line 145
SprintfId(keyRing, crn) == keyRing \o SEP \o crn

\* Go's s[i] (0-based) is defined iff 0 <= i < len(s); otherwise the runtime panics
InRange(s, i) == 0 <= i /\ i < Len(s)
At(s, i) == s[i + 1]

(***************************************************************************)
(* CRN parser of Create, lines 78-82.                                      *)
(***************************************************************************)
\* the parser taking the second-from-last segment
ParseInstanceIDSecondFromLast(instanceID) ==
    LET CrnInstanceID == Split(instanceID, Colon)
    IN  IF Len(CrnInstanceID) > 3
        THEN At(CrnInstanceID, Len(CrnInstanceID) - 2)
        ELSE instanceID

ParseInstanceID(instanceID) ==
    LET CrnInstanceID == Split(instanceID, Colon)
    IN  IF Len(CrnInstanceID) > 3
        THEN At(CrnInstanceID, Len(CrnInstanceID) - 3)
        ELSE instanceID

(***************************************************************************)
(* Decoding of the external id.  st is "ok", "err" (an error value is      *)
(* returned) or "panic" (index out of range: the process crashes).         *)
(***************************************************************************)
Decoded(st, keyRingID, crn, instanceID) ==
    [st |-> st, keyRingID |-> keyRingID, crn |-> crn, instanceID |-> instanceID]

\* Read's decoding without the length check of lines 156-158
ReadDecodeUnchecked(extId) ==
    LET id == Split(extId, SEP)
    IN  IF ~InRange(id, 1)
        THEN Decoded("panic", Empty, Empty, Empty)
        ELSE LET crn == At(id, 1)
                 crnData == Split(crn, Colon)
             IN  IF InRange(crnData, Len(crnData) - 3)
                 THEN Decoded("ok", At(id, 0), crn, At(crnData, Len(crnData) - 3))
                 ELSE Decoded("panic", Empty, Empty, Empty)

\* Read, lines 155-162
ReadDecode(extId) ==
    LET id == Split(extId, SEP)
    IN  IF Len(id) < 2
        THEN Decoded("err", Empty, Empty, Empty)
        ELSE LET crn == At(id, 1)
                 crnData == Split(crn, Colon)
             IN  IF InRange(crnData, Len(crnData) - 3)
                 THEN Decoded("ok", At(id, 0), crn, At(crnData, Len(crnData) - 3))
                 ELSE Decoded("panic", Empty, Empty, Empty)

\* Delete, lines 208-212: no length check before id[1]
DeleteDecode(extId) ==
    LET id == Split(extId, SEP)
    IN  IF ~InRange(id, 1)
        THEN Decoded("panic", Empty, Empty, Empty)
        ELSE LET crn == At(id, 1)
                 crnData == Split(crn, Colon)
             IN  IF InRange(crnData, Len(crnData) - 3)
                 THEN Decoded("ok", At(id, 0), crn, At(crnData, Len(crnData) - 3))
                 ELSE Decoded("panic", Empty, Empty, Empty)

(***************************************************************************)
(* Bounds and input sets.                                                  *)
(***************************************************************************)
\* the resource records the framework drives (their operations may overlap)
Recs == {1, 2}
\* most colon-delimited segments of a CRN fed to the codec
MaxSegs == 5

KeyRingIds == {FinanceKeys}
EndpointTypes == {"", "public", "private"}
\* instance_id as configured: a bare GUID or a full CRN (Create, line 78)
InstanceRefs(r) == IF r = 1 THEN {GUID1, CRN1} ELSE {GUID2}
\* identifiers handed to Read by the pass-through importer (line 25)
ImportIds == {BadId, ShortId, ExtId1}
AllGuids == {GUID1, GUID2}

(***************************************************************************)
(* schema.ResourceData: the external id and the three fields of the schema *)
(* (lines 27-49).                                                          *)
(***************************************************************************)
ResourceData(Id, instance_id, key_ring_id, endpoint_type) ==
    [Id |-> Id, instance_id |-> instance_id, key_ring_id |-> key_ring_id,
     endpoint_type |-> endpoint_type]

BlankData == ResourceData(Empty, Empty, Empty, "")

\* the local variables of a handler
Locals(instanceID, keyRingID, endpointType, instanceCRN, URL) ==
    [instanceID |-> instanceID, keyRingID |-> keyRingID, endpointType |-> endpointType,
     instanceCRN |-> instanceCRN, URL |-> URL]

NoLocals == Locals(Empty, Empty, "", Empty, Empty)

(***************************************************************************)
(* The resource controller (rc.GetResourceInstance, lines 94, 172, 222).   *)
(***************************************************************************)
\* *rc.ResourceInstance; nil is the nil pointer
InstanceData(nil, CRN, public, private) ==
    [nil |-> nil, CRN |-> CRN, public |-> public, private |-> private]

NilData == InstanceData(TRUE, Empty, Empty, Empty)

\* what the cloud holds for an instance: its CRN and the endpoints its
\* extensions advertise (an empty string: not advertised)
MetadataOf(g) ==
    IF g = GUID1 THEN InstanceData(FALSE, CRN1, PubURL1, PrivURL1)
    ELSE InstanceData(FALSE, CRN2, PubURL2, Empty)

\* (instanceData, err) of GetResourceInstance: the instance's metadata, NotFound
\* when it does not exist, a transient failure, or an empty 2xx body (nil, nil)
FetchResponses(g) ==
    (IF g \in instances
     THEN {[data |-> MetadataOf(g), err |-> "none"]}
     ELSE {[data |-> NilData, err |-> "404"]})
    \cup {[data |-> NilData, err |-> "transient"], [data |-> NilData, err |-> "none"]}

(***************************************************************************)
(* KmsEndpointURL (lines 100, 177, 227).                                   *)
(***************************************************************************)
Resolved(err, URL) == [err |-> err, URL |-> URL]

KmsEndpointURL(client, endpointType, extensions) ==
    IF endpointType = "private"
    THEN IF extensions.private # Empty
         THEN Resolved(FALSE, extensions.private) ELSE Resolved(TRUE, Empty)
    ELSE IF endpointType = "public"
    THEN IF extensions.public # Empty
         THEN Resolved(FALSE, extensions.public) ELSE Resolved(TRUE, Empty)
    ELSE IF extensions.private # Empty THEN Resolved(FALSE, extensions.private)
    ELSE IF extensions.public # Empty THEN Resolved(FALSE, extensions.public)
    ELSE Resolved(TRUE, Empty)

(***************************************************************************)
(* The KMS control plane behind kp.Client (lines 129, 134, 183, 233) and   *)
(* behind the raw POST of line 123.  A request is served by the instance   *)
(* named in its bluemix-instance header when its URL is one of that        *)
(* instance's endpoints.  err is "none", a status code carried by a        *)
(* *kp.Error, or "transport" (an error that is no *kp.Error).              *)
(***************************************************************************)
Served(URL, inst) ==
    /\ inst \in instances
    /\ URL # Empty
    /\ URL \in {MetadataOf(inst).public, MetadataOf(inst).private}

KmsAnswer(err, list, rs, wk) == [err |-> err, list |-> list, rings |-> rs, withKeys |-> wk]

\* failures any request can meet without reaching the key-ring store
Unavailable == {KmsAnswer(e, {}, rings, withKeys) : e \in {"500", "transport"}}

RemoteCreateKeyRing(URL, inst, id) ==
    (IF ~Served(URL, inst) THEN {KmsAnswer("404", {}, rings, withKeys)}
     ELSE IF <<inst, id>> \in rings THEN {KmsAnswer("409", {}, rings, withKeys)}
     ELSE {KmsAnswer("none", {}, rings \cup {<<inst, id>>}, withKeys)})
    \cup Unavailable

RemoteGetKeyRings(URL, inst) ==
    (IF ~Served(URL, inst) THEN {KmsAnswer("404", {}, rings, withKeys)}
     ELSE {KmsAnswer("none", {k \in KeyRingIds : <<inst, k>> \in rings}, rings, withKeys),
           KmsAnswer("409", {}, rings, withKeys)})
    \cup Unavailable

\* 409: the service rejects the deletion of a key ring that still holds keys
RemoteDeleteKeyRing(URL, inst, id) ==
    (IF ~Served(URL, inst) \/ <<inst, id>> \notin rings
     THEN {KmsAnswer("404", {}, rings, withKeys)}
     ELSE IF <<inst, id>> \in withKeys THEN {KmsAnswer("409", {}, rings, withKeys)}
     ELSE {KmsAnswer("none", {}, rings \ {<<inst, id>>}, withKeys)})
    \cup Unavailable

\* the raw POST: only a transport failure is looked at; the response, and
\* whether the service created the ring, are not
RemoteRawPost(URL, inst, id) ==
    {KmsAnswer("transport", {}, rings, withKeys), KmsAnswer("none", {}, rings, withKeys)}
    \cup (IF Served(URL, inst) /\ <<inst, id>> \notin rings
          THEN {KmsAnswer("none", {}, rings \cup {<<inst, id>>}, withKeys)} ELSE {})

\* one request as sent: by which step, with which URL and instance id, next to
\* the URL and instance id the operation itself resolved, the answer, whether
\* the listing it brought holds the operation's key ring id, and whether the
\* operation's own key ring existed when the answer came
Call(kind, URL, inst, ownURL, ownInst, err, found, present) ==
    [kind |-> kind, URL |-> URL, inst |-> inst, ownURL |-> ownURL, ownInst |-> ownInst,
     err |-> err, found |-> found, present |-> present]

(***************************************************************************)
(* State.  d[r]: the record's ResourceData; pc[r]: where its handler       *)
(* stands ("idle": none running; "done": returned, result in ret[r]);      *)
(* op[r]: the handler the framework invoked; loc[r]: its locals;           *)
(* entry[r]: d[r] as it was when the handler was invoked; calls[r]: the    *)
(* requests this invocation has sent; kpAPI: the one kp.Client that        *)
(* meta.(conns.ClientSession).KeyManagementAPI() hands to every handler;   *)
(* instances, rings, withKeys: what exists in the cloud; session: the      *)
(* provider's configured session.                                          *)
(***************************************************************************)
\* kp.Client: URL, Config.InstanceID, Config.BaseURL
Client(URL, InstanceID, BaseURL) == [URL |-> URL, InstanceID |-> InstanceID, BaseURL |-> BaseURL]

CodecOff == [phase |-> "off", id |-> Empty, crn |-> Empty, ext |-> Empty,
             out |-> Decoded("none", Empty, Empty, Empty)]

\* conns.ClientSession as the provider configured it: every accessor works
\* ("ok"), or KeyManagementAPI() ("kms"), ResourceControllerV2API() ("rc") or
\* BluemixSession() ("bmx") returns the error stored at configuration
Sessions == {"ok", "kms", "rc", "bmx"}

\* the handler that ran before on a record: which, its result, the id it got
Ran(o, st, Id) == [op |-> o, ret |-> st, Id |-> Id]
NoHandler == Ran("none", "none", Empty)

Init ==
    /\ d = [r \in Recs |-> BlankData]
    /\ pc = [r \in Recs |-> "idle"]
    /\ op = [r \in Recs |-> "none"]
    /\ loc = [r \in Recs |-> NoLocals]
    /\ ret = [r \in Recs |-> "none"]
    /\ entry = [r \in Recs |-> BlankData]
    /\ calls = [r \in Recs |-> <<>>]
    /\ last = [r \in Recs |-> NoHandler]
    /\ \E base \in {PubURL1, PrivURL1} : kpAPI = Client(base, Empty, base)
    /\ instances = AllGuids
    /\ rings = {}
    /\ withKeys = {}
    /\ codec = CodecOff
    /\ session \in Sessions

\* the handler of record r moves to position p with result st, leaving the
\* record dd, the requests cs, the locals l, the client k and the rings rs
Move(r, p, st, dd, cs, l, k, rs) ==
    /\ pc' = [pc EXCEPT ![r] = p]
    /\ ret' = [ret EXCEPT ![r] = st]
    /\ d' = [d EXCEPT ![r] = dd]
    /\ calls' = [calls EXCEPT ![r] = cs]
    /\ loc' = [loc EXCEPT ![r] = l]
    /\ kpAPI' = k
    /\ rings' = rs

Return(r, st, dd, cs, l, k, rs) == Move(r, "done", st, dd, cs, l, k, rs)

\* the operation's own key ring exists in the store rs
Present(l, rs) == <<l.instanceID, l.keyRingID>> \in rs

\* a request through the shared client: it goes where the client points now
ClientCall(kind, l, a) ==
    Call(kind, kpAPI.URL, kpAPI.InstanceID, l.URL, l.instanceID, a.err,
         l.keyRingID \in a.list, Present(l, a.rings))

\* found: whether the answer brought an instance object
FetchCall(l, resp) ==
    Call("fetch", Empty, l.instanceID, Empty, l.instanceID, resp.err, ~resp.data.nil, FALSE)

(***************************************************************************)
(* Read, lines 150-201.                                                    *)
(***************************************************************************)
\* lines 151-182: decode, fetch the metadata, resolve, configure the client
ReadEnter(r, dd, cs) ==
    LET dec == ReadDecode(dd.Id)
        l0 == Locals(dec.instanceID, dec.keyRingID, dd.endpoint_type, dec.crn, Empty)
    IN  IF session = "kms" THEN Return(r, "err", dd, cs, NoLocals, kpAPI, rings)
        ELSE IF dec.st # "ok" THEN Return(r, dec.st, dd, cs, NoLocals, kpAPI, rings)
        ELSE IF session = "rc" THEN Return(r, "err", dd, cs, l0, kpAPI, rings)
        ELSE \E resp \in FetchResponses(dec.instanceID) :
             LET cs1 == Append(cs, FetchCall(l0, resp))
                 res == KmsEndpointURL(kpAPI, dd.endpoint_type, resp.data)
                 l1 == [l0 EXCEPT !.URL = res.URL]
             IN  IF resp.err # "none" \/ resp.data.nil
                 THEN Return(r, "err", dd, cs1, l0, kpAPI, rings)
                 ELSE IF res.err THEN Return(r, "err", dd, cs1, l0, kpAPI, rings)
                 ELSE Move(r, "r_list", "none", dd, cs1, l1,
                           Client(res.URL, dec.instanceID, kpAPI.BaseURL), rings)

ReadStart(r) ==
    /\ pc[r] = "idle"
    /\ d[r].Id # Empty
    /\ op' = [op EXCEPT ![r] = "Read"]
    /\ entry' = [entry EXCEPT ![r] = d[r]]
    /\ ReadEnter(r, d[r], <<>>)
    /\ UNCHANGED <<last, instances, withKeys, codec, session>>

\* the importer passes the given id through and Read runs on it
ImportStart(r) ==
    /\ pc[r] = "idle"
    /\ d[r].Id = Empty
    /\ \E id \in ImportIds :
        /\ op' = [op EXCEPT ![r] = "Read"]
        /\ entry' = [entry EXCEPT ![r] = [BlankData EXCEPT !.Id = id]]
        /\ ReadEnter(r, [BlankData EXCEPT !.Id = id], <<>>)
    /\ UNCHANGED <<last, instances, withKeys, codec, session>>

\* the classification with 404 alone taken for absence
ReadClassifyOnly404(err) ==
    IF err = "none" THEN "go on"
    ELSE IF err = "transport" THEN "panic"
    ELSE IF err = "404" THEN "absent"
    ELSE "err"

\* lines 184-191: what Read makes of the list call's error: "go on", "absent"
\* (SetId("") and return nil), "err", or "panic" (err.(*kp.Error) on an error
\* that is no *kp.Error)
ReadClassify(err) ==
    IF err = "none" THEN "go on"
    ELSE IF err = "transport" THEN "panic"
    ELSE IF err = "404" \/ err = "409" THEN "absent"
    ELSE "err"

\* lines 183-191: the list call and the classification of its failure
ReadList(r) ==
    /\ pc[r] = "r_list"
    /\ \E a \in RemoteGetKeyRings(kpAPI.URL, kpAPI.InstanceID) :
       LET cs1 == Append(calls[r], ClientCall("list", loc[r], a))
           c == ReadClassify(a.err)
       IN  IF c = "go on" THEN Move(r, "r_tail", "none", d[r], cs1, loc[r], kpAPI, a.rings)
           ELSE IF c = "absent"
                THEN Return(r, "ok", [d[r] EXCEPT !.Id = Empty], cs1, loc[r], kpAPI, a.rings)
           ELSE Return(r, c, d[r], cs1, loc[r], kpAPI, a.rings)
    /\ UNCHANGED <<op, entry, last, instances, withKeys, codec, session>>

\* lines 193-200
ReadTail(r) ==
    /\ pc[r] = "r_tail"
    /\ LET et == IF Contains(kpAPI.URL, PrivateText) \/ Contains(kpAPI.BaseURL, PrivateText)
                 THEN "private" ELSE "public"
       IN  Return(r, "ok",
                  [d[r] EXCEPT !.instance_id = loc[r].instanceID, !.endpoint_type = et,
                               !.key_ring_id = loc[r].keyRingID],
                  calls[r], loc[r], kpAPI, rings)
    /\ UNCHANGED <<op, entry, last, instances, withKeys, codec, session>>

(***************************************************************************)
(* Create, lines 72-148.                                                   *)
(***************************************************************************)
\* lines 73-122: parse, fetch, resolve, configure the client, build the POST
CreateStart(r) ==
    /\ pc[r] = "idle"
    /\ d[r].Id = Empty
    /\ \E ref \in InstanceRefs(r), keyRingID \in KeyRingIds, endpointType \in EndpointTypes :
       LET dd == ResourceData(Empty, ref, keyRingID, endpointType)
           instanceID == ParseInstanceID(ref)
           l0 == Locals(instanceID, keyRingID, endpointType, Empty, Empty)
       IN  /\ op' = [op EXCEPT ![r] = "Create"]
           /\ entry' = [entry EXCEPT ![r] = dd]
           /\ IF session \in {"kms", "rc"}
              THEN Return(r, "err", dd, <<>>, NoLocals, kpAPI, rings)
              ELSE \E resp \in FetchResponses(instanceID) :
                   LET cs1 == <<FetchCall(l0, resp)>>
                       res == KmsEndpointURL(kpAPI, endpointType, resp.data)
                       l1 == [l0 EXCEPT !.instanceCRN = resp.data.CRN, !.URL = res.URL]
                       k1 == Client(res.URL, instanceID, kpAPI.BaseURL)
                   IN  \* line 95 reads instanceData.CRN before the nil check of line 96
                       IF resp.data.nil THEN Return(r, "panic", dd, cs1, l0, kpAPI, rings)
                       ELSE IF resp.err # "none" THEN Return(r, "err", dd, cs1, l0, kpAPI, rings)
                       ELSE IF res.err THEN Return(r, "err", dd, cs1, l0, kpAPI, rings)
                       ELSE IF session = "bmx" THEN Return(r, "err", dd, cs1, l1, k1, rings)
                       ELSE Move(r, "c_pre", "none", dd, cs1, l1, k1, rings)
    /\ UNCHANGED <<last, instances, withKeys, codec, session>>

\* lines 123-126: the raw POST, sent with the handler's own URL and instance id
CreatePre(r) ==
    /\ pc[r] = "c_pre"
    /\ \E a \in RemoteRawPost(loc[r].URL, loc[r].instanceID, loc[r].keyRingID) :
       LET cs1 == Append(calls[r], Call("post", loc[r].URL, loc[r].instanceID, loc[r].URL,
                                        loc[r].instanceID, a.err, FALSE,
                                        Present(loc[r], a.rings)))
       IN  IF a.err # "none" THEN Return(r, "err", d[r], cs1, loc[r], kpAPI, a.rings)
           ELSE Move(r, "c_create", "none", d[r], cs1, loc[r], kpAPI, a.rings)
    /\ UNCHANGED <<op, entry, last, instances, withKeys, codec, session>>

\* lines 129-132
CreateCall(r) ==
    /\ pc[r] = "c_create"
    /\ \E a \in RemoteCreateKeyRing(kpAPI.URL, kpAPI.InstanceID, loc[r].keyRingID) :
       LET cs1 == Append(calls[r], ClientCall("create", loc[r], a))
       IN  IF a.err # "none" THEN Return(r, "err", d[r], cs1, loc[r], kpAPI, a.rings)
           ELSE Move(r, "c_list", "none", d[r], cs1, loc[r], kpAPI, a.rings)
    /\ UNCHANGED <<op, entry, last, instances, withKeys, codec, session>>

\* the search replaced by trust in the create call
FoundKeyRingTrusted(list, keyRingID) == keyRingID

\* lines 133-143: the id found in the listing, "" when none equals keyRingID
FoundKeyRing(list, keyRingID) == IF keyRingID \in list THEN keyRingID ELSE Empty

\* lines 133-147: list, search, SetId, and the first part of the read-back
CreateList(r) ==
    /\ pc[r] = "c_list"
    /\ \E a \in RemoteGetKeyRings(kpAPI.URL, kpAPI.InstanceID) :
       LET cs1 == Append(calls[r], ClientCall("list", loc[r], a))
           keyRing == FoundKeyRing(a.list, loc[r].keyRingID)
           dd == [d[r] EXCEPT !.Id = SprintfId(keyRing, loc[r].instanceCRN)]
       IN  IF a.err # "none" THEN Return(r, "err", d[r], cs1, loc[r], kpAPI, a.rings)
           ELSE ReadEnter(r, dd, cs1)
    /\ UNCHANGED <<op, entry, last, instances, withKeys, codec, session>>

(***************************************************************************)
(* Delete, lines 203-244.                                                  *)
(***************************************************************************)
\* lines 204-232
DeleteStart(r) ==
    /\ pc[r] = "idle"
    /\ d[r].Id # Empty
    /\ op' = [op EXCEPT ![r] = "Delete"]
    /\ entry' = [entry EXCEPT ![r] = d[r]]
    /\ LET dec == DeleteDecode(d[r].Id)
           l0 == Locals(dec.instanceID, dec.keyRingID, d[r].endpoint_type, dec.crn, Empty)
       IN  IF session = "kms" THEN Return(r, "err", d[r], <<>>, NoLocals, kpAPI, rings)
           ELSE IF dec.st # "ok" THEN Return(r, dec.st, d[r], <<>>, NoLocals, kpAPI, rings)
           ELSE IF session = "rc" THEN Return(r, "err", d[r], <<>>, l0, kpAPI, rings)
           ELSE \E resp \in FetchResponses(dec.instanceID) :
                LET cs1 == <<FetchCall(l0, resp)>>
                    res == KmsEndpointURL(kpAPI, d[r].endpoint_type, resp.data)
                    l1 == [l0 EXCEPT !.URL = res.URL]
                IN  IF resp.err # "none" \/ resp.data.nil
                    THEN Return(r, "err", d[r], cs1, l0, kpAPI, rings)
                    ELSE IF res.err THEN Return(r, "err", d[r], cs1, l0, kpAPI, rings)
                    ELSE Move(r, "d_delete", "none", d[r], cs1, l1,
                              Client(res.URL, dec.instanceID, kpAPI.BaseURL), rings)
    /\ UNCHANGED <<last, instances, withKeys, codec, session>>

\* the classification with 404 alone taken for success
DeleteClassifyOnly404(err) ==
    IF err = "none" THEN "ok"
    ELSE IF err = "transport" THEN "panic"
    ELSE IF err = "404" THEN "ok"
    ELSE "err"

\* lines 234-242: the result of Delete for the delete call's error
DeleteClassify(err) ==
    IF err = "none" THEN "ok"
    ELSE IF err = "transport" THEN "panic"
    ELSE IF err = "404" \/ err = "409" THEN "ok"
    ELSE "err"

\* lines 233-242
DeleteCall(r) ==
    /\ pc[r] = "d_delete"
    /\ \E a \in RemoteDeleteKeyRing(kpAPI.URL, kpAPI.InstanceID, loc[r].keyRingID) :
       LET cs1 == Append(calls[r], ClientCall("delete", loc[r], a))
       IN  Return(r, DeleteClassify(a.err), d[r], cs1, loc[r], kpAPI, a.rings)
    /\ UNCHANGED <<op, entry, last, instances, withKeys, codec, session>>

(***************************************************************************)
(* The framework takes the handler's result.  A record whose id is empty   *)
(* is dropped.  After a successful Delete the record is dropped too, unless*)
(* the drop is not persisted (the run is interrupted): the stored id then  *)
(* comes back to a later handler.  Any other record is kept as stored,     *)
(* whatever its id: the store is not owned by the handlers.                *)
(***************************************************************************)
Finish(r) ==
    /\ pc[r] = "done"
    /\ pc' = [pc EXCEPT ![r] = "idle"]
    /\ \E persisted \in BOOLEAN :
        d' = [d EXCEPT ![r] = IF d[r].Id = Empty \/ (op[r] = "Delete" /\ ret[r] = "ok" /\ persisted)
                               THEN BlankData ELSE d[r]]
    /\ last' = [last EXCEPT ![r] = Ran(op[r], ret[r], entry[r].Id)]
    /\ op' = [op EXCEPT ![r] = "none"]
    /\ ret' = [ret EXCEPT ![r] = "none"]
    /\ loc' = [loc EXCEPT ![r] = NoLocals]
    /\ entry' = [entry EXCEPT ![r] = BlankData]
    /\ calls' = [calls EXCEPT ![r] = <<>>]
    /\ UNCHANGED <<kpAPI, instances, rings, withKeys, codec, session>>

(***************************************************************************)
(* Other parties acting on the cloud.                                      *)
(***************************************************************************)
InstanceRemoved ==
    /\ \E g \in instances :
        /\ instances' = instances \ {g}
        /\ rings' = {x \in rings : x[1] # g}
        /\ withKeys' = {x \in withKeys : x[1] # g}
    /\ UNCHANGED <<d, pc, op, loc, ret, entry, calls, last, kpAPI, codec, session>>

RingRemoved ==
    /\ \E x \in rings :
        /\ rings' = rings \ {x}
        /\ withKeys' = withKeys \ {x}
    /\ UNCHANGED <<d, pc, op, loc, ret, entry, calls, last, kpAPI, instances, codec, session>>

KeyAdded ==
    /\ \E x \in rings \ withKeys : withKeys' = withKeys \cup {x}
    /\ UNCHANGED <<d, pc, op, loc, ret, entry, calls, last, kpAPI, instances, rings, codec, session>>

Environment == InstanceRemoved \/ RingRemoved \/ KeyAdded

Handler(r) ==
    \/ CreateStart(r) \/ CreatePre(r) \/ CreateCall(r) \/ CreateList(r)
    \/ ReadStart(r) \/ ImportStart(r) \/ ReadList(r) \/ ReadTail(r)
    \/ DeleteStart(r) \/ DeleteCall(r)
    \/ Finish(r)

\* one record at a time: the handlers run one after the other
Next == Handler(1) \/ Environment

Spec == Init /\ [][Next]_vars

(***************************************************************************)
(* One run of the provider over two records of different instances: the    *)
(* process starts with a fresh client; each record is either new or was    *)
(* created by an earlier run (its ring exists, its fields are what that    *)
(* run's Create and Read left); the framework invokes one handler per      *)
(* record and runs the handlers of different records concurrently.         *)
(***************************************************************************)
\* record r as an earlier successful Create left it, under client base URL base
Created(r, base) ==
    LET g == IF r = 1 THEN GUID1 ELSE GUID2
        et == IF Contains(base, PrivateText) \/ MetadataOf(g).private # Empty
              THEN "private" ELSE "public"
    IN  ResourceData(SprintfId(FinanceKeys, MetadataOf(g).CRN), g, FinanceKeys, et)

InitConc ==
    /\ \E base \in {PubURL1, PrivURL1}, old \in SUBSET Recs :
        /\ kpAPI = Client(base, Empty, base)
        /\ d = [r \in Recs |-> IF r \in old THEN Created(r, base) ELSE BlankData]
        /\ rings = {<<Created(r, base).instance_id, FinanceKeys>> : r \in old}
    /\ pc = [r \in Recs |-> "idle"]
    /\ op = [r \in Recs |-> "none"]
    /\ loc = [r \in Recs |-> NoLocals]
    /\ ret = [r \in Recs |-> "none"]
    /\ entry = [r \in Recs |-> BlankData]
    /\ calls = [r \in Recs |-> <<>>]
    /\ last = [r \in Recs |-> NoHandler]
    /\ instances = AllGuids
    /\ withKeys = {}
    /\ codec = CodecOff
    /\ session \in Sessions

Invoke(r) ==
    \/ CreateStart(r) \/ CreatePre(r) \/ CreateCall(r) \/ CreateList(r)
    \/ ReadStart(r) \/ ImportStart(r) \/ ReadList(r) \/ ReadTail(r)
    \/ DeleteStart(r) \/ DeleteCall(r)

NextConc == \E r \in Recs : Invoke(r)

SpecConc == InitConc /\ [][NextConc]_vars

(***************************************************************************)
(* The identifier codec on its own: Create's encoding (line 145) and the   *)
(* decoding of Read (155-162) and Delete (208-212), on key ring ids the    *)
(* validator accepts and on CRNs of up to MaxSegs segments.                *)
(***************************************************************************)
\* the validator of lines 60-66: ^[a-zA-Z0-9-]*$, 2 to 100 characters
MinValueLength == 2
MaxValueLength == 100
IdChars ==
    {"a","b","c","d","e","f","g","h","i","j","k","l","m","n","o","p","q","r","s","t","u",
     "v","w","x","y","z","A","B","C","D","E","F","G","H","I","J","K","L","M","N","O","P",
     "Q","R","S","T","U","V","W","X","Y","Z","0","1","2","3","4","5","6","7","8","9","-"}

ValidKeyRingID(s) ==
    /\ Len(s) >= MinValueLength
    /\ Len(s) <= MaxValueLength
    /\ \A i \in 1..Len(s) : s[i] \in IdChars

CodecIds == {FinanceKeys, <<"k","9">>}
Segments == {Empty, <<"a">>, KeyRingText}

RECURSIVE Join(_)
Join(segs) == IF Len(segs) = 1 THEN segs[1] ELSE segs[1] \o Colon \o Join(Tail(segs))

CodecCRNs == {Join(f) : f \in UNION {[1..n -> Segments] : n \in 1..MaxSegs}} \cup {CRN1}

InitCodec ==
    /\ d = [r \in Recs |-> BlankData]
    /\ pc = [r \in Recs |-> "idle"]
    /\ op = [r \in Recs |-> "none"]
    /\ loc = [r \in Recs |-> NoLocals]
    /\ ret = [r \in Recs |-> "none"]
    /\ entry = [r \in Recs |-> BlankData]
    /\ calls = [r \in Recs |-> <<>>]
    /\ last = [r \in Recs |-> NoHandler]
    /\ kpAPI = Client(PubURL1, Empty, PubURL1)
    /\ instances = AllGuids
    /\ rings = {}
    /\ withKeys = {}
    /\ session = "ok"
    /\ \E id \in CodecIds, crn \in CodecCRNs :
        codec = [CodecOff EXCEPT !.phase = "in", !.id = id, !.crn = crn]

\* line 145
Encode ==
    /\ codec.phase = "in"
    /\ codec' = [codec EXCEPT !.phase = "encoded", !.ext = SprintfId(codec.id, codec.crn)]
    /\ UNCHANGED <<d, pc, op, loc, ret, entry, calls, last, kpAPI, instances, rings, withKeys, session>>

\* lines 155-162
DecodeInRead ==
    /\ codec.phase = "encoded"
    /\ codec' = [codec EXCEPT !.phase = "read", !.out = ReadDecode(codec.ext)]
    /\ UNCHANGED <<d, pc, op, loc, ret, entry, calls, last, kpAPI, instances, rings, withKeys, session>>

\* lines 208-212
DecodeInDelete ==
    /\ codec.phase = "encoded"
    /\ codec' = [codec EXCEPT !.phase = "delete", !.out = DeleteDecode(codec.ext)]
    /\ UNCHANGED <<d, pc, op, loc, ret, entry, calls, last, kpAPI, instances, rings, withKeys, session>>

\* lines 78-82, on the instance reference: out holds the input and the result
ParseCRN ==
    /\ codec.phase = "in"
    /\ codec' = [codec EXCEPT !.phase = "parsed",
                              !.out = Decoded("ok", Empty, codec.crn, ParseInstanceID(codec.crn))]
    /\ UNCHANGED <<d, pc, op, loc, ret, entry, calls, last, kpAPI, instances, rings, withKeys, session>>

\* lines 78-82 again, on the result of the first parse
ParseAgain ==
    /\ codec.phase = "parsed"
    /\ codec' = [codec EXCEPT !.phase = "reparsed",
                              !.out = Decoded("ok", Empty, codec.out.instanceID,
                                              ParseInstanceID(codec.out.instanceID))]
    /\ UNCHANGED <<d, pc, op, loc, ret, entry, calls, last, kpAPI, instances, rings, withKeys, session>>

NextCodec == Encode \/ DecodeInRead \/ DecodeInDelete \/ ParseCRN \/ ParseAgain

SpecCodec == InitCodec /\ [][NextCodec]_vars

(***************************************************************************)
(* Properties.                                                             *)
(***************************************************************************)
\* handler o of record r has returned
Returned(r, o) == pc[r] = "done" /\ op[r] = o

\* the i-th request of r's invocation was of this kind
Sent(r, i, kind) == Len(calls[r]) >= i /\ calls[r][i].kind = kind

\* the requests a handler sends through the shared kp.Client
KmsKinds == {"create", "list", "delete"}

\* the part of an external id after the first ":keyRing:"
AfterSeparator(s) == SubSeq(s, Index(s, SEP) + Len(SEP), Len(s))

\* C1: when the remote create call succeeds and the list call that follows
\* succeeds without an entry equal to key_ring_id, Create returns an error and
\* records no external id.
C1_CreateVerifiesResult ==
    \A r \in Recs :
        (/\ Returned(r, "Create")
         /\ Sent(r, 3, "create") /\ calls[r][3].err = "none"
         /\ Sent(r, 4, "list") /\ calls[r][4].err = "none" /\ ~calls[r][4].found)
        => (ret[r] = "err" /\ d[r].Id = Empty)

\* C2: a Delete whose remote delete call is answered 404 or 409 returns
\* success (so a second Delete of the same id, answered 404, succeeds too).
C2_DeleteIdempotent ==
    \A r \in Recs :
        (/\ Returned(r, "Delete")
         /\ Sent(r, 2, "delete") /\ calls[r][2].err \in {"404", "409"})
        => ret[r] = "ok"

\* two Deletes in a row on one external id both returned success, the second
\* one answered 404
C2_Witness ==
    \E r \in Recs :
        /\ Returned(r, "Delete") /\ ret[r] = "ok"
        /\ Sent(r, 2, "delete") /\ calls[r][2].err = "404"
        /\ last[r] = Ran("Delete", "ok", entry[r].Id)

\* C3: whenever Delete returns success, the key ring it was to delete was
\* absent from the instance when the delete call answered.
C3_DeleteSuccessMeansAbsent ==
    \A r \in Recs :
        (Returned(r, "Delete") /\ ret[r] = "ok" /\ Sent(r, 2, "delete"))
        => ~calls[r][2].present

\* C4: every KMS request a handler sends goes to the base URL and instance
\* id that this same handler resolved.
C4_NoEndpointLeak ==
    \A r \in Recs : \A i \in DOMAIN calls[r] :
        calls[r][i].kind \in KmsKinds
        => (calls[r][i].URL = calls[r][i].ownURL /\ calls[r][i].inst = calls[r][i].ownInst)

\* C5: Read on an external id without ":keyRing:" returns an error, leaves
\* the external id as it was, and sends no request (no fetch, no KMS call).
C5_ReadRejectsIdWithoutSeparator ==
    \A r \in Recs :
        (Returned(r, "Read") /\ ~Contains(entry[r].Id, SEP))
        => (ret[r] = "err" /\ d[r].Id = entry[r].Id /\ calls[r] = <<>>)

\* Read has returned on "bad-id-no-separator" after getting its clients
C5_Witness ==
    \E r \in Recs :
        /\ Returned(r, "Read") /\ entry[r].Id = BadId
        /\ ret[r] = "err" /\ d[r].Id = BadId

\* C6: Delete on an external id without ":keyRing:" returns an error value
\* (no crash) and sends no request.
C6_DeleteRejectsIdWithoutSeparator ==
    \A r \in Recs :
        (Returned(r, "Delete") /\ ~Contains(entry[r].Id, SEP))
        => (ret[r] = "err" /\ calls[r] = <<>>)

\* C7: Read and Delete on an external id whose part after ":keyRing:" has
\* fewer than 3 colon-delimited segments return an error value (no crash)
\* and send no request.
C7_ShortCrnRejected ==
    \A r \in Recs :
        (/\ Returned(r, "Read") \/ Returned(r, "Delete")
         /\ Contains(entry[r].Id, SEP)
         /\ Len(Split(AfterSeparator(entry[r].Id), Colon)) < 3)
        => (ret[r] = "err" /\ calls[r] = <<>>)

\* C8: for a valid key_ring_id and a CRN of at least 3 colon-delimited
\* segments, decoding key_ring_id + ":keyRing:" + crn as Read and Delete do
\* gives back exactly (key_ring_id, crn).
C8_RoundTrip ==
    (/\ codec.phase \in {"read", "delete"}
     /\ ValidKeyRingID(codec.id)
     /\ Len(Split(codec.crn, Colon)) >= 3)
    => (/\ codec.out.st = "ok"
        /\ codec.out.keyRingID = codec.id
        /\ codec.out.crn = codec.crn)

\* C9: Read on a well-formed external id whose instance metadata fetch is
\* answered NotFound returns success with the external id cleared.
C9_ReadAbsentWhenInstanceGone ==
    \A r \in Recs :
        (/\ Returned(r, "Read")
         /\ ReadDecode(entry[r].Id).st = "ok"
         /\ Sent(r, 1, "fetch") /\ calls[r][1].err = "404")
        => (ret[r] = "ok" /\ d[r].Id = Empty)

\* Create on the instance of CRN1 with key_ring_id "finance-keys" returned success
CreatedFinanceKeys(r) ==
    /\ Returned(r, "Create") /\ ret[r] = "ok"
    /\ entry[r].key_ring_id = FinanceKeys
    /\ ParseInstanceID(entry[r].instance_id) = GUID1

\* the Read that follows a successful Create returned success and kept the record
ReadAfterCreate(r) ==
    /\ Returned(r, "Read") /\ ret[r] = "ok" /\ d[r].Id # Empty
    /\ last[r].op = "Create" /\ last[r].ret = "ok"

\* C10 as stated: a successful Create with key_ring_id "finance-keys" on the
\* instance of CRN crn:v1:bluemix:public:kms:us-south:a/abc:123:: records
\* "finance-keys:keyRing:" + that CRN, and a following successful Read
\* reports instance_id "abc" and key_ring_id "finance-keys".
C10_ScenarioAsStated ==
    \A r \in Recs :
        /\ CreatedFinanceKeys(r) => d[r].Id = ExtId1
        /\ (ReadAfterCreate(r) /\ entry[r].Id = ExtId1)
           => (d[r].instance_id = ABC /\ d[r].key_ring_id = FinanceKeys)

\* C10, amended: such a Create records k + ":keyRing:" + that CRN, k being
\* "finance-keys" when its list call returned that id and "" when it did not,
\* or no id at all when the list call of its read-back is answered 404 or
\* 409; a following successful Read that keeps the record reports instance_id
\* "123", the third-from-last segment of the CRN, and key_ring_id k.
C10_Scenario ==
    \A r \in Recs :
        /\ CreatedFinanceKeys(r)
           => LET k == IF Sent(r, 4, "list") /\ calls[r][4].found THEN FinanceKeys ELSE Empty
              IN  IF Sent(r, 6, "list") /\ calls[r][6].err \in {"404", "409"}
                  THEN d[r].Id = Empty
                  ELSE d[r].Id = SprintfId(k, CRN1)
        /\ \A k \in {FinanceKeys, Empty} :
             (ReadAfterCreate(r) /\ entry[r].Id = SprintfId(k, CRN1))
             => (d[r].instance_id = GUID1 /\ d[r].key_ring_id = k)

\* Create recorded the scenario's external id and the Read after it reported
\* instance_id "123" and key_ring_id "finance-keys"
C10_Witness ==
    \E r \in Recs :
        /\ ReadAfterCreate(r)
        /\ last[r] = Ran("Create", "ok", Empty)
        /\ entry[r].Id = ExtId1 /\ d[r].Id = ExtId1
        /\ d[r].instance_id = GUID1 /\ d[r].key_ring_id = FinanceKeys

\* the requests of r's invocation whose kind is in kinds
Requests(r, kinds) == {i \in DOMAIN calls[r] : calls[r][i].kind \in kinds}

\* the requests for the creation of a key ring: the raw POST of lines 107-127
\* and CreateKeyRing, line 129
CreateKinds == {"post", "create"}

\* C11: a Create that runs to completion has sent exactly one request to create
\* the key ring and exactly one request to list the key rings, its delegated
\* read-back included.
C11_OneCreateOneList ==
    \A r \in Recs :
        (Returned(r, "Create") /\ ret[r] = "ok")
        => (/\ Cardinality(Requests(r, CreateKinds)) = 1
            /\ Cardinality(Requests(r, {"list"})) = 1)

\* the metadata fetch of r's invocation failed: an error, or no instance object
FetchFailed(r) ==
    /\ Sent(r, 1, "fetch")
    /\ (calls[r][1].err # "none" \/ ~calls[r][1].found)

\* C12: when the metadata fetch of Create or Delete returns an error or no
\* instance object, the handler returns an error value without crashing, sends
\* no KMS request and leaves the external id as it was.
C12_FetchFailureFatal ==
    \A r \in Recs :
        ((Returned(r, "Create") \/ Returned(r, "Delete")) /\ FetchFailed(r))
        => (/\ ret[r] = "err"
            /\ Requests(r, KmsKinds \cup {"post"}) = {}
            /\ d[r].Id = entry[r].Id)

\* the KMS request of a Read or a Delete of r was answered with a failure other
\* than 404 and 409
OtherFailure(r) ==
    /\ Len(calls[r]) >= 2
    /\ calls[r][2].kind \in {"list", "delete"}
    /\ calls[r][2].err \notin {"none", "404", "409"}

\* C13: a Read or a Delete whose KMS request fails with anything but 404 or
\* 409, a failure without a status code included, returns an error value: it
\* neither succeeds, nor marks the record absent, nor crashes.
C13_OtherFailuresSurfaced ==
    \A r \in Recs :
        ((Returned(r, "Read") \/ Returned(r, "Delete")) /\ OtherFailure(r))
        => (ret[r] = "err" /\ d[r].Id = entry[r].Id)

\* the last metadata fetch that r's invocation sent before its i-th request
\* (0 when there is none)
FetchBefore(r, i) ==
    LET F == {j \in 1..(i - 1) : calls[r][j].kind = "fetch"}
    IN  IF F = {} THEN 0 ELSE CHOOSE j \in F : \A k \in F : k <= j

\* C14: in every invocation each KMS request comes after a metadata fetch of
\* that same invocation which brought the instance, and is sent with the base
\* URL that the invocation resolved from that metadata, never with one that
\* another invocation resolved.
C14_FreshResolution ==
    \A r \in Recs : \A i \in Requests(r, KmsKinds \cup {"post"}) :
        LET j == FetchBefore(r, i)
        IN  /\ j > 0
            /\ calls[r][j].err = "none" /\ calls[r][j].found
            /\ calls[r][i].URL = calls[r][i].ownURL
            /\ calls[r][i].URL \in {MetadataOf(calls[r][j].inst).public,
                                    MetadataOf(calls[r][j].inst).private}

\* a Read of r, invoked by the framework or as the last step of Create, has
\* returned success after a list call that succeeded
ReadReported(r) ==
    /\ pc[r] = "done" /\ op[r] \in {"Read", "Create"} /\ ret[r] = "ok"
    /\ calls[r] # <<>>
    /\ calls[r][Len(calls[r])].kind = "list"
    /\ calls[r][Len(calls[r])].err = "none"
    /\ op[r] = "Create" => Len(calls[r]) = 6

\* C15: after a successful Read the reported endpoint_type is "private" exactly
\* when the base URL resolved in that Read is a private one and "public"
\* otherwise, whatever the other fields of the client hold.
C15_EndpointTypeFromResolvedURL ==
    \A r \in Recs :
        ReadReported(r)
        => d[r].endpoint_type =
             (IF Contains(loc[r].URL, PrivateText) THEN "private" ELSE "public")

\* the list call of a Read of r, invoked by the framework, was answered 404 or
\* 409
ReadAnsweredGone(r) ==
    /\ Returned(r, "Read")
    /\ Sent(r, 2, "list") /\ calls[r][2].err \in {"404", "409"}

\* C16: when the list call of Read is answered 404 or 409, Read clears the
\* external id, returns no error, and leaves instance_id, key_ring_id and
\* endpoint_type as they were.
C16_AbsentClearsIdOnly ==
    \A r \in Recs :
        ReadAnsweredGone(r)
        => (/\ ret[r] = "ok"
            /\ d[r].Id = Empty
            /\ d[r].instance_id = entry[r].instance_id
            /\ d[r].key_ring_id = entry[r].key_ring_id
            /\ d[r].endpoint_type = entry[r].endpoint_type)

\* a Read of a record with an id and with all three attributes set was
\* answered 409 and returned success with the id cleared and the attributes
\* kept
C16_Witness ==
    \E r \in Recs :
        /\ ReadAnsweredGone(r) /\ calls[r][2].err = "409"
        /\ entry[r].Id # Empty /\ entry[r].instance_id # Empty
        /\ entry[r].key_ring_id # Empty /\ entry[r].endpoint_type # ""
        /\ ret[r] = "ok" /\ d[r] = [entry[r] EXCEPT !.Id = Empty]

\* a Read of r that follows a successful Create, which recorded the id of its
\* key ring, got a listing that succeeded and does not hold that key ring,
\* the ring having been removed from the reachable instance
ReadMissedRing(r) ==
    /\ Returned(r, "Read")
    /\ last[r].op = "Create" /\ last[r].ret = "ok"
    /\ entry[r].key_ring_id # Empty
    /\ ReadDecode(entry[r].Id).keyRingID = entry[r].key_ring_id
    /\ Sent(r, 2, "list") /\ calls[r][2].err = "none"
    /\ ~calls[r][2].found /\ ~calls[r][2].present

\* C17: when the key ring of a created record has been removed by another
\* party and the list call of the next Read succeeds without its id, that Read
\* marks the record absent.
C17_ReadDiscoversRemoval ==
    \A r \in Recs : ReadMissedRing(r) => d[r].Id = Empty

\* the segment sequences from which the instance references are joined
SegmentSeqs == UNION {[1..n -> Segments] : n \in 1..MaxSegs}

\* C18: the CRN parser of Create returns, of an input of more than 3
\* colon-separated segments, the segment at position length - 3, and any other
\* input unchanged; parsing the result of parsing an input without colons
\* gives that result again.
C18_ParseInstanceID ==
    /\ codec.phase = "parsed"
       => /\ \A f \in SegmentSeqs :
               Join(f) = codec.crn
               => codec.out.instanceID =
                    (IF Len(f) > 3 THEN f[Len(f) - 2] ELSE codec.crn)
          /\ codec.crn = CRN1 => codec.out.instanceID = GUID1
    /\ (codec.phase = "reparsed" /\ ~Contains(codec.crn, Colon))
       => (codec.out.crn = codec.crn /\ codec.out.instanceID = codec.out.crn)

\* the parser has taken "keyRing", on position length - 3, out of an input of
\* five segments
C18_Witness ==
    /\ codec.phase = "parsed"
    /\ codec.crn = Join(<<Empty, <<"a">>, KeyRingText, <<"a">>, Empty>>)
    /\ codec.out.instanceID = KeyRingText

\* the CRN of the instance that the Create of r was given
FetchedCRN(r) == MetadataOf(ParseInstanceID(entry[r].instance_id)).CRN

\* C19: when Create returns success, the recorded external id is not empty and
\* is key_ring_id, ":keyRing:" and the CRN that was fetched.
C19_SuccessRecordsId ==
    \A r \in Recs :
        (Returned(r, "Create") /\ ret[r] = "ok")
        => (/\ d[r].Id # Empty
            /\ d[r].Id = SprintfId(entry[r].key_ring_id, FetchedCRN(r)))

\* C20: when Create returns an error, no external id is recorded, wherever the
\* failure occurred.
C20_ErrorRecordsNothing ==
    \A r \in Recs :
        (Returned(r, "Create") /\ ret[r] = "err") => d[r].Id = Empty

====
